---- MODULE Spec2Model ----
(***************************************************************************)
(* Backgrid.HeaderCell (src/src/header.js): the per-column sort state      *)
(* machine, the comparator factory and the sort dispatch against a plain   *)
(* Backbone.Collection or a Backbone.PageableCollection.                   *)
(*                                                                         *)
(* One header cell per column, all cells listening to the same collection. *)
(* A handler runs to completion (JavaScript is single threaded), so each   *)
(* handler is one action; only collection.fetch() is asynchronous and is   *)
(* modelled by the requests in flight.                                     *)
(***************************************************************************)
EXTENDS Integers, Sequences, FiniteSets

\* ------------------------------------------------------------------ bounds
NumRecords == 3        \* models held by the collection
MaxVal == 2            \* attribute values are 0..MaxVal, or undefined
MaxPending == 2        \* fetches in flight at once
StreakLen == 3         \* activations remembered by the observer variable

\* --------------------------------------------------------------- constants
null == "null"                       \* JavaScript null
undefined == "undefined"             \* JavaScript undefined
Undef == 0 - 1                       \* an attribute the model does not have
Columns == {"age", "name"}           \* column names, unique
Directions == {"ascending", "descending", null}
Values == (0..MaxVal) \cup {Undef}
Cids == 1..NumRecords
ThisCollection == "collection"       \* the collection every cell listens to

VARIABLES
  records,        \* cid number -> the model: its cid and its attributes
  pageable,       \* collection instanceof Backbone.PageableCollection
  mode,           \* collection.mode
  models,         \* collection.models, as cid numbers in order
  fullModels,     \* collection.fullCollection.models (client mode)
  comparator,     \* collection.comparator
  fullComparator, \* collection.fullCollection.comparator
  sortKey,        \* collection.state.sortKey, recorded by setSorting
  order,          \* collection.state.order, recorded by setSorting
  pending,        \* fetches in flight, oldest first
  dir,            \* column name -> that cell's _direction
  sortable,       \* column name -> what column.get("sortable") evaluates to
  event,          \* the last "backgrid:sort" event triggered
  last,           \* observer: the last activation and the calls it made
  streak          \* observer: the last activations that sorted the same column

vars == <<records, pageable, mode, models, fullModels, comparator,
          fullComparator, sortKey, order, pending, dir, sortable, event,
          last, streak>>

\* ---------------------------------------------------------- pure functions

\* A comparator function is represented by what it closes over.
NoComparator == [kind |-> undefined, attr |-> null, invert |-> FALSE]
CidComparatorRef == [kind |-> "cid", attr |-> null, invert |-> FALSE]

\* model.get(attr)
value(model, attr) == model[attr]

\* JavaScript's  a < b : false whenever an operand is undefined
LessThan(a, b) == a # Undef /\ b # Undef /\ a < b

\* HeaderCell.comparator
defaultComparator(left, right) ==
  IF left = right THEN 0
  ELSE IF LessThan(left, right) THEN 0 - 1
  ELSE 1

\* cid.slice(1) * 1
CidNumber(cid) == cid.n

cidComparator_rev(left, right) ==
  LET lcid == CidNumber(left.cid)
      rcid == CidNumber(right.cid)
  IN IF lcid < rcid THEN 1 ELSE IF lcid > rcid THEN 0 - 1 ELSE 0

\* HeaderCell._cidComparator
cidComparator(left, right) ==
  LET lcid == CidNumber(left.cid)
      rcid == CidNumber(right.cid)
  IN IF lcid < rcid THEN 0 - 1 ELSE IF lcid > rcid THEN 1 ELSE 0

makeComparator_flip(attr, ord) ==
  IF attr = null \/ ord = 0 THEN NoComparator
  ELSE [kind |-> "attr", attr |-> attr, invert |-> (ord = 0 - 1)]

\* HeaderCell.makeComparator: nothing when attr or order is falsy
makeComparator(attr, ord) ==
  IF attr = null \/ ord = 0 THEN NoComparator
  ELSE [kind |-> "attr", attr |-> attr, invert |-> (ord = 1)]

\* Calling a comparator on two models
Apply(cmp, left, right) ==
  IF cmp.kind = "attr"
  THEN IF cmp.invert
       THEN defaultComparator(value(right, cmp.attr), value(left, cmp.attr))
       ELSE defaultComparator(value(left, cmp.attr), value(right, cmp.attr))
  ELSE cidComparator(left, right)

OrderOf_swapped(direction) ==
  IF direction = "ascending" THEN 1
  ELSE IF direction = "descending" THEN 0 - 1 ELSE 0

\* sort(), first line: the sign of a direction; 0 stands for null
OrderOf(direction) ==
  IF direction = "ascending" THEN 0 - 1
  ELSE IF direction = "descending" THEN 1 ELSE 0

SortComparator_nofallback(columnName, direction) ==
  makeComparator(columnName, OrderOf(direction))

\* sort(), second line: the comparator built, or the cid comparator
SortComparator(columnName, direction) ==
  LET made == makeComparator(columnName, OrderOf(direction))
  IN IF made # NoComparator THEN made ELSE CidComparatorRef

NextDirection_stuck(current) ==
  IF current = "ascending" THEN "descending"
  ELSE IF current = "descending" THEN "ascending"
  ELSE "ascending"

\* onClick: the direction the next activation sorts by
NextDirection(current) ==
  IF current = "ascending" THEN "descending"
  ELSE IF current = "descending" THEN null
  ELSE "ascending"

\* HeaderCell.direction(dir), the setter: the new _direction
setDirection(current, d) == d

resetCellDirection_keep(current, name, sortByColName, direction, collection) ==
  IF collection = ThisCollection
  THEN IF sortByColName # name THEN current
       ELSE setDirection(current, direction)
  ELSE current

resetCellDirection_anyone(current, name, sortByColName, direction, collection) ==
  IF sortByColName # name THEN setDirection(current, null)
  ELSE setDirection(current, direction)

resetCellDirection_stale(current, name, sortByColName, direction, collection) ==
  IF collection = ThisCollection
  THEN IF sortByColName # name THEN setDirection(current, null)
       ELSE current
  ELSE current

resetCellDirection_all(current, name, sortByColName, direction, collection) ==
  IF collection = ThisCollection
  THEN setDirection(current, direction)
  ELSE current

\* HeaderCell._resetCellDirection: the cell's direction after the event
resetCellDirection(current, name, sortByColName, direction, collection) ==
  IF collection = ThisCollection
  THEN IF sortByColName # name THEN setDirection(current, null)
       ELSE setDirection(current, direction)
  ELSE current

Sortable_always(c) == TRUE

Sortable_cached(c) == IF last.cell = c THEN last.sorted ELSE sortable[c]

\* Backgrid.callByNeed(column.get("sortable"), column, this.model)
Sortable(c) == sortable[c]

Branch_local ==
  IF pageable /\ mode = "client" THEN "client" ELSE "local"

\* sort(): which of the three dispatch branches is taken
Branch ==
  IF pageable
  THEN IF mode = "client" THEN "client" ELSE "remote"
  ELSE "local"

SortKeyOf_always(columnName, ord) == columnName

\* sort(): the sort key handed to setSorting, order ? columnName : null
SortKeyOf(columnName, ord) == IF ord # 0 THEN columnName ELSE null

FullComparatorAfter_overwrite(current, cmp) == cmp

FullComparatorAfter_never(current, cmp) == current

\* sort(), client mode: fullCollection.comparator is assigned only when the
\* superset has none
FullComparatorAfter(current, cmp) ==
  IF current = NoComparator THEN cmp ELSE current

\* The collaborator calls sort() makes, in order
Calls(branch) ==
  IF branch = "remote" THEN <<"setSorting", "fetch", "trigger">>
  ELSE IF branch = "client" THEN <<"setSorting", "fullCollection.sort", "trigger">>
  ELSE <<"collection.sort", "trigger">>

\* ----------------------------------------------------- Array.prototype.sort

Orderings(ms) ==
  {p \in [1..Len(ms) -> {ms[i] : i \in 1..Len(ms)}] :
     \A i, j \in 1..Len(ms) : i # j => p[i] # p[j]}

IsSortedBy(p, cmp) ==
  \A i, j \in 1..Len(p) :
     i < j => Apply(cmp, records[p[i]], records[p[j]]) <= 0

\* Backbone's collection.sort() with a two-argument comparator: any ordering
\* the comparator accepts (the sort need not be stable); with a comparator
\* that is inconsistent on these models the ordering is implementation-defined.
SortResults(ms, cmp) ==
  LET sorted == {p \in Orderings(ms) : IsSortedBy(p, cmp)}
  IN IF sorted # {} THEN sorted ELSE Orderings(ms)

CreationOrder == [i \in 1..NumRecords |-> i]

\* The page the server answers a fetch with: sorted by the requested key,
\* order -1 ascending and 1 descending, creation order without a key.
ServerResults(req) ==
  IF req.sortKey = null THEN {CreationOrder}
  ELSE SortResults(CreationOrder,
         [kind |-> "attr", attr |-> req.sortKey, invert |-> (req.order = 1)])

\* ------------------------------------------------------------------- state

NoEvent == [columnName |-> null, direction |-> null,
            comparator |-> NoComparator, collection |-> null]

NoDirections == [c \in Columns |-> null]

\* The last activation: the cell, whether it sorted and with what direction,
\* the calls made, every cell's direction before it, where in pending the
\* fetch it issued is (0: not in flight) and what became of that fetch, the
\* columns another column's sort has reset since they last sorted, and
\* whether the activated column was one of them.
NoActivation == [cell |-> null, sorted |-> FALSE, direction |-> null,
                 calls |-> <<>>, dirBefore |-> NoDirections,
                 fetchAt |-> 0, fetched |-> "none",
                 reset |-> {}, resumed |-> FALSE]

\* What every initial state shares: a collection just filled, nothing sorted
Fresh(ages, m) ==
  /\ records = [i \in Cids |->
                  [cid |-> [prefix |-> "c", n |-> i],
                   age |-> ages[i],
                   name |-> NumRecords - i]]
  /\ pageable = (m # "plain")
  /\ mode = IF m = "plain" THEN undefined ELSE m
  /\ models = CreationOrder
  /\ fullModels = IF m = "client" THEN CreationOrder ELSE <<>>
  /\ comparator = NoComparator
  /\ fullComparator = NoComparator
  /\ sortKey = null
  /\ order = 0
  /\ pending = <<>>
  /\ dir = NoDirections
  /\ sortable = [c \in Columns |-> TRUE]
  /\ event = NoEvent
  /\ last = NoActivation
  /\ streak = <<>>

\* Two collections' worth of ages: all distinct and out of creation order
\* (2, 0, 1 for three models), and one where two models have equal ages.
SampleAges ==
  {[i \in Cids |-> (i + 1) % (MaxVal + 1)],
   [i \in Cids |-> IF i <= 2 THEN 0 ELSE (i - 2) % (MaxVal + 1)]}

\* The record set a server-mode collection is given: the distinct ages
ServerAges == {[i \in Cids |-> (i + 1) % (MaxVal + 1)]}

\* A plain or client-mode collection holding one of the sample record sets,
\* or a server-mode collection holding the first
Init ==
  \/ \E ages \in SampleAges : \E m \in {"plain", "client"} : Fresh(ages, m)
  \/ \E ages \in ServerAges : Fresh(ages, "server")

\* Every record set whose models all have an age, and the record sets whose
\* first model lacks the attribute while the others have age 0 or 1.
LocalAges ==
  [Cids -> 0..MaxVal] \cup
  {[i \in Cids |-> IF i = 1 THEN Undef ELSE a[i]] : a \in [Cids -> 0..1]}

\* A plain Backbone.Collection
InitLocal ==
  \E ages \in LocalAges : Fresh(ages, "plain")

\* ----------------------------------------------------------------- actions

\* HeaderCell.sort(columnName, direction), with the synchronous delivery of
\* the "backgrid:sort" event to every cell's _resetCellDirection.
Sort(columnName, direction) ==
  LET ord == OrderOf(direction)
      cmp == SortComparator(columnName, direction)
      key == SortKeyOf(columnName, ord)
      full == FullComparatorAfter(fullComparator, cmp)
  IN /\ \/ /\ Branch = "remote"
           /\ Len(pending) < MaxPending
           /\ sortKey' = key
           /\ order' = ord
           /\ pending' = Append(pending, [sortKey |-> key, order |-> ord])
           /\ UNCHANGED <<models, fullModels, comparator, fullComparator>>
        \/ /\ Branch = "client"
           /\ sortKey' = key
           /\ order' = ord
           /\ fullComparator' = full
           /\ \E p \in SortResults(fullModels, full) :
                /\ fullModels' = p
                /\ models' = p
           /\ UNCHANGED <<comparator, pending>>
        \/ /\ Branch = "local"
           /\ comparator' = cmp
           /\ \E p \in SortResults(models, cmp) : models' = p
           /\ UNCHANGED <<fullModels, fullComparator, sortKey, order, pending>>
     /\ event' = [columnName |-> columnName, direction |-> direction,
                  comparator |-> cmp, collection |-> ThisCollection]
     /\ dir' = [c \in Columns |->
                  resetCellDirection(dir[c], c, columnName, direction,
                                     ThisCollection)]

\* HeaderCell.onClick of the cell of column c
OnClick(c) ==
  IF Sortable(c)
  THEN LET next == NextDirection(dir[c])
           entry == [cell |-> c, before |-> dir[c], sent |-> next,
                     after |-> dir'[c]]
           kept == IF streak # <<>> /\ streak[1].cell = c THEN streak ELSE <<>>
           grown == Append(kept, entry)
       IN /\ Sort(c, next)
          /\ last' = [cell |-> c, sorted |-> TRUE, direction |-> next,
                      calls |-> <<"preventDefault">> \o Calls(Branch),
                      dirBefore |-> dir,
                      fetchAt |-> IF Len(pending') > Len(pending)
                                  THEN Len(pending') ELSE 0,
                      fetched |-> IF Len(pending') > Len(pending)
                                  THEN "pending" ELSE "none",
                      reset |-> (last.reset \ {c}) \cup
                                {a \in Columns : a # c /\ dir[a] # null},
                      resumed |-> (c \in last.reset)]
          /\ streak' = IF Len(grown) > StreakLen THEN Tail(grown) ELSE grown
          /\ UNCHANGED <<records, pageable, mode, sortable>>
  ELSE /\ last' = [cell |-> c, sorted |-> FALSE, direction |-> null,
                   calls |-> <<"preventDefault">>, dirBefore |-> dir,
                   fetchAt |-> 0, fetched |-> "none",
                   reset |-> last.reset, resumed |-> FALSE]
       /\ UNCHANGED <<records, pageable, mode, models, fullModels, comparator,
                      fullComparator, sortKey, order, pending, dir, sortable,
                      event, streak>>

\* The column's sortable flag, or what its predicate answers, changes
ToggleSortable(c) ==
  /\ sortable' = [sortable EXCEPT ![c] = ~@]
  /\ UNCHANGED <<records, pageable, mode, models, fullModels, comparator,
                 fullComparator, sortKey, order, pending, dir, event, last,
                 streak>>

Without(s, i) == [k \in 1..(Len(s) - 1) |-> IF k < i THEN s[k] ELSE s[k + 1]]

\* The observer after the fetch at place i of pending has ended
FetchEnded(i, outcome) ==
  IF last.fetchAt = i
  THEN [last EXCEPT !.fetchAt = 0, !.fetched = outcome]
  ELSE IF last.fetchAt > i THEN [last EXCEPT !.fetchAt = @ - 1]
  ELSE last

\* A fetch({reset: true}) in flight resolves: the collection is reset to the
\* page the server sorted by the parameters of that request.
FetchResolve(i) ==
  /\ i \in 1..Len(pending)
  /\ \E p \in ServerResults(pending[i]) : models' = p
  /\ pending' = Without(pending, i)
  /\ last' = FetchEnded(i, "resolved")
  /\ UNCHANGED <<records, pageable, mode, fullModels, comparator,
                 fullComparator, sortKey, order, dir, sortable, event,
                 streak>>

FetchFail_rollback(i) ==
  /\ i \in 1..Len(pending)
  /\ pending' = Without(pending, i)
  /\ last' = FetchEnded(i, "failed")
  /\ dir' = NoDirections
  /\ sortKey' = null
  /\ order' = 0
  /\ UNCHANGED <<records, pageable, mode, models, fullModels, comparator,
                 fullComparator, sortable, event, streak>>

\* A fetch in flight fails: sort() passes fetch no error callback, so nothing
\* in header.js runs
FetchFail(i) ==
  /\ i \in 1..Len(pending)
  /\ pending' = Without(pending, i)
  /\ last' = FetchEnded(i, "failed")
  /\ UNCHANGED <<records, pageable, mode, models, fullModels, comparator,
                 fullComparator, sortKey, order, dir, sortable, event,
                 streak>>

Next ==
  \/ \E c \in Columns : OnClick(c)
  \/ \E c \in Columns : ToggleSortable(c)
  \/ \E i \in 1..MaxPending : FetchResolve(i)
  \/ \E i \in 1..MaxPending : FetchFail(i)

Spec == Init /\ [][Next]_vars

\* The plain collection: every column stays sortable, nothing is fetched
NextLocal == \E c \in Columns : OnClick(c)

SpecLocal == InitLocal /\ [][NextLocal]_vars

\* Remote mode with every fetch answered: activations and resolving fetches
NextAnswered ==
  \/ \E c \in Columns : OnClick(c)
  \/ \E i \in 1..MaxPending : FetchResolve(i)

SpecAnswered == Init /\ [][NextAnswered]_vars

\* What a caller may pass for a direction: the three of the documentation and
\* a string that is none of them
OtherCollection == "another collection"
MalformedDirection == "sideways"
PassedDirections == Directions \cup {MalformedDirection}

\* A direct call of the public method sort(columnName, direction) of the cell
\* of column columnName, with whatever direction the caller passes
SortCall(columnName, direction) ==
  /\ Sort(columnName, direction)
  /\ UNCHANGED <<records, pageable, mode, sortable, last, streak>>

\* A "backgrid:sort" event reaching the cells with the given collection
\* argument, which need not be the cells' own collection
Trigger(columnName, direction, collection) ==
  /\ event' = [columnName |-> columnName, direction |-> direction,
               comparator |-> NoComparator, collection |-> collection]
  /\ dir' = [c \in Columns |->
               resetCellDirection(dir[c], c, columnName, direction, collection)]
  /\ UNCHANGED <<records, pageable, mode, models, fullModels, comparator,
                 fullComparator, sortKey, order, pending, sortable, last,
                 streak>>

\* The cells used through their public method sort and the events they
\* listen to
NextApi ==
  \/ \E c \in Columns : \E d \in PassedDirections : SortCall(c, d)
  \/ \E c \in Columns : \E d \in Directions :
        Trigger(c, d, OtherCollection)

\* A collection sorted in memory, holding one of the sample record sets
InitApi ==
  \E ages \in SampleAges : \E m \in {"plain", "client"} : Fresh(ages, m)

SpecApi == InitApi /\ [][NextApi]_vars

\* -------------------------------------------------------------- properties

ActiveColumns == {c \in Columns : dir[c] # null}
Remote == pageable /\ mode # "client"
Count(s, x) == Cardinality({i \in 1..Len(s) : s[i] = x})
Record(i) == records[i]
Comparable(attr) == \A i \in Cids : value(Record(i), attr) # Undef
NonDecreasing(ms, attr) ==
  \A i, j \in 1..Len(ms) :
     i < j => value(Record(ms[i]), attr) <= value(Record(ms[j]), attr)
NonIncreasing(ms, attr) ==
  \A i, j \in 1..Len(ms) :
     i < j => value(Record(ms[i]), attr) >= value(Record(ms[j]), attr)

\* C1: three consecutive activations of a sortable column that starts at
\* none, with no other column's sort in between, call sort with ascending,
\* descending, none in that order, and the cell's direction after each is
\* ascending, descending, none.
C1_ThreeActivationsCycle ==
  \A i \in 1..Len(streak) :
     (i + 2 <= Len(streak) /\ streak[i].before = null) =>
        /\ streak[i].sent = "ascending"
        /\ streak[i].after = "ascending"
        /\ streak[i + 1].sent = "descending"
        /\ streak[i + 1].after = "descending"
        /\ streak[i + 2].sent = null
        /\ streak[i + 2].after = null
        /\ streak[i + 1].cell = streak[i].cell
        /\ streak[i + 2].cell = streak[i].cell

C1_Witness ==
  /\ Len(streak) >= 3
  /\ streak[Len(streak) - 2].before = null
  /\ streak[Len(streak)].after = null
  /\ dir[streak[Len(streak)].cell] = null

\* C2: at most one cell holds a direction other than none; right after a sort
\* dispatch exactly the dispatching cell holds one when the direction sent was
\* ascending or descending, and no cell does when it was none.
C2_AtMostOneActive ==
  /\ Cardinality(ActiveColumns) <= 1
  /\ last.sorted =>
       IF last.direction # null
       THEN ActiveColumns = {last.cell} /\ dir[last.cell] = last.direction
       ELSE ActiveColumns = {}

C2_Witness ==
  /\ last.sorted
  /\ last.direction = "ascending"
  /\ \E b \in Columns : b # last.cell /\ last.dirBefore[b] = "ascending"
  /\ Cardinality(ActiveColumns) = 1

\* C3: activating a column that is not sortable changes no cell's direction,
\* not the comparators, the recorded sort parameters or the record ordering,
\* issues no fetch and triggers no event.
C3_NonSortableClickIsNoOp ==
  [][\A c \in Columns :
       (~sortable[c] /\ OnClick(c)) =>
          UNCHANGED <<dir, comparator, fullComparator, sortKey, order, models,
                      fullModels, pending, event, streak>>]_vars

C3_Witness ==
  /\ last.cell # null
  /\ ~last.sorted
  /\ ~sortable[last.cell]
  /\ dir[last.cell] = "descending"

\* C4: on a plain collection whose models all have the attribute, after
\* sort(attr, ascending) the models are in non-decreasing order of attr, and
\* after sort(attr, descending) in non-increasing order.
C4_LocalSortOrders ==
  (~pageable /\ event # NoEvent /\ Comparable(event.columnName)) =>
     /\ event.direction = "ascending" => NonDecreasing(models, event.columnName)
     /\ event.direction = "descending" => NonIncreasing(models, event.columnName)

\* ages 2, 0, 1 in creation order (30, 10, 20 of the example) sorted ascending
C4_Witness ==
  /\ ~pageable
  /\ value(Record(1), "age") = 2
  /\ value(Record(2), "age") = 0
  /\ value(Record(3), "age") = 1
  /\ event.columnName = "age"
  /\ event.direction = "ascending"
  /\ models[1] = 2 /\ models[2] = 3 /\ models[3] = 1

\* C5: on a plain collection, sort(columnName, none) installs the cid
\* comparator and leaves the models in creation order.
C5_NoneRestoresCreationOrder ==
  (~pageable /\ event # NoEvent /\ event.direction = null) =>
     /\ comparator = CidComparatorRef
     /\ comparator.kind = "cid"
     /\ models = CreationOrder

C5_Witness ==
  /\ ~pageable
  /\ event.columnName = "age"
  /\ event.direction = null
  /\ Len(streak) >= 3
  /\ Comparable("age")
  /\ ~NonDecreasing(models, "age")
  /\ ~NonIncreasing(models, "age")
  /\ models = CreationOrder

\* C6: for every attribute and every pair of models, makeComparator(attr, -1)
\* answers the negation of what makeComparator(attr, +1) answers.
C6_ExactNegations ==
  \A attr \in Columns : \A l, r \in Cids :
     Apply(makeComparator(attr, 0 - 1), Record(l), Record(r)) =
       0 - Apply(makeComparator(attr, 1), Record(l), Record(r))

\* C7 as stated: makeComparator(attr, -1) answers the base comparator's result
\* on (value(left), value(right)) negated, and makeComparator(attr, +1)
\* answers it unnegated.
C7_MinusOneInverts ==
  \A attr \in Columns : \A l, r \in Cids :
     /\ Apply(makeComparator(attr, 0 - 1), Record(l), Record(r)) =
          0 - defaultComparator(value(Record(l), attr), value(Record(r), attr))
     /\ Apply(makeComparator(attr, 1), Record(l), Record(r)) =
          defaultComparator(value(Record(l), attr), value(Record(r), attr))

\* C7 as amended: makeComparator(attr, -1) answers the base comparator on
\* (value(left), value(right)), the natural ordering; makeComparator(attr, +1)
\* answers the base comparator on (value(right), value(left)), the arguments
\* swapped; ascending maps to -1 and descending to +1, so the comparator an
\* ascending sort installs and broadcasts is the natural one.
C7_PlusOneSwaps ==
  /\ \A attr \in Columns : \A l, r \in Cids :
       /\ Apply(makeComparator(attr, 0 - 1), Record(l), Record(r)) =
            defaultComparator(value(Record(l), attr), value(Record(r), attr))
       /\ Apply(makeComparator(attr, 1), Record(l), Record(r)) =
            defaultComparator(value(Record(r), attr), value(Record(l), attr))
  /\ (event # NoEvent /\ event.direction # null) =>
       \A l, r \in Cids :
          Apply(event.comparator, Record(l), Record(r)) =
            IF event.direction = "ascending"
            THEN defaultComparator(value(Record(l), event.columnName),
                                   value(Record(r), event.columnName))
            ELSE defaultComparator(value(Record(r), event.columnName),
                                   value(Record(l), event.columnName))

C7_Witness ==
  /\ event.direction = "ascending"
  /\ comparator = event.comparator
  /\ \E l, r \in Cids :
       /\ value(Record(l), event.columnName) # Undef
       /\ LessThan(value(Record(l), event.columnName),
                   value(Record(r), event.columnName))
       /\ Apply(comparator, Record(l), Record(r)) = 0 - 1

\* C8: when column B holds a direction and another, sortable column A is
\* activated, then after A's event is delivered B's direction is none and A's
\* direction is the one A sent.
C8_OtherColumnReset ==
  \A b \in Columns :
     (last.sorted /\ b # last.cell /\ last.dirBefore[b] # null) =>
        /\ dir[b] = null
        /\ dir[last.cell] = last.direction
        /\ event.columnName = last.cell
        /\ event.direction = last.direction

C8_Witness ==
  /\ last.sorted
  /\ \E b \in Columns :
       b # last.cell /\ last.dirBefore[b] = "descending" /\ dir[b] = null
  /\ dir[last.cell] = "ascending"

\* C9: in remote mode a sort dispatch records the sort parameters and issues
\* exactly one fetch; it assigns no comparator, sorts nothing locally and
\* leaves the models' order alone, which only a resolving fetch changes.
C9_RemoteDispatch ==
  [][Remote =>
       /\ \A c \in Columns :
            (sortable[c] /\ OnClick(c)) =>
               /\ sortKey' = IF NextDirection(dir[c]) = null THEN null ELSE c
               /\ order' = IF NextDirection(dir[c]) = "ascending" THEN 0 - 1
                           ELSE IF NextDirection(dir[c]) = "descending" THEN 1
                           ELSE 0
               /\ Len(pending') = Len(pending) + 1
               /\ pending'[Len(pending')] =
                    [sortKey |-> sortKey', order |-> order']
               /\ Count(last'.calls, "fetch") = 1
               /\ Count(last'.calls, "collection.sort") = 0
               /\ Count(last'.calls, "fullCollection.sort") = 0
               /\ UNCHANGED <<comparator, fullComparator, models, fullModels>>
       /\ models' # models => Len(pending') < Len(pending)]_vars

C9_Witness ==
  /\ Remote
  /\ last.sorted
  /\ Len(pending) >= 1
  /\ pending[Len(pending)] = [sortKey |-> sortKey, order |-> order]
  /\ sortKey = "age"
  /\ models = CreationOrder
  /\ comparator = NoComparator

\* C10: every sort dispatch, in each branch and for each direction, triggers
\* exactly one event, after the branch's dispatch step, carrying the column
\* name and direction sent, the comparator built (the cid comparator for
\* none) and the collection.
C10_OneBroadcast ==
  last.sorted =>
     /\ Count(last.calls, "trigger") = 1
     /\ last.calls[Len(last.calls)] = "trigger"
     /\ \/ Count(last.calls, "fetch") = 1
        \/ Count(last.calls, "fullCollection.sort") = 1
        \/ Count(last.calls, "collection.sort") = 1
     /\ event = [columnName |-> last.cell,
                 direction |-> last.direction,
                 comparator |->
                   IF last.direction = null THEN CidComparatorRef
                   ELSE [kind |-> "attr", attr |-> last.cell,
                         invert |-> (last.direction = "descending")],
                 collection |-> ThisCollection]

C10_Witness ==
  /\ Remote
  /\ last.sorted
  /\ last.direction = null
  /\ event.direction = null
  /\ event.comparator = CidComparatorRef
  /\ event.collection = ThisCollection

\* The comparator sort(columnName, direction) is documented to build
BuiltComparator(columnName, direction) ==
  IF direction = null THEN CidComparatorRef
  ELSE [kind |-> "attr", attr |-> columnName,
        invert |-> (direction = "descending")]
ClientPaged == pageable /\ mode = "client"
ImpliedDirections(e) ==
  [c \in Columns |-> IF c = e.columnName THEN e.direction ELSE null]

\* C11: a cell that receives an event whose collection is not its own keeps
\* its direction, whether or not the event names its column.
C11_ForeignEventIgnored ==
  [][\A c \in Columns : \A d \in Directions :
       Trigger(c, d, OtherCollection) => dir' = dir]_vars

C11_Witness ==
  /\ event.collection = OtherCollection
  /\ dir[event.columnName] = "ascending"
  /\ event.direction = "descending"

\* C12: a direction other than ascending, descending or none is rejected: no
\* event carries it and no cell's direction ever takes it.
C12_MalformedRejected ==
  /\ event.direction \in Directions
  /\ \A c \in Columns : dir[c] \in Directions

\* C13: in remote mode, while the fetch the last dispatch issued is still in
\* flight, the event has been triggered and every cell already shows what
\* that dispatch implies.
C13_DirectionsBeforeFetchResolves ==
  (Remote /\ last.sorted /\ last.fetched = "pending") =>
     /\ last.fetchAt \in 1..Len(pending)
     /\ Count(last.calls, "trigger") = 1
     /\ event.columnName = last.cell
     /\ event.direction = last.direction
     /\ dir = ImpliedDirections(event)

C13_Witness ==
  /\ Remote
  /\ last.sorted
  /\ last.fetched = "pending"
  /\ last.fetchAt = Len(pending)
  /\ dir[last.cell] = "descending"
  /\ models = CreationOrder

\* C14 as stated: after any dispatches the active comparator, the plain
\* collection's own or the superset's in client mode, is the one the most
\* recent dispatch built, and every cell's direction is the one the most
\* recent event implies.
C14_LastWriteWins ==
  event # NoEvent =>
     /\ ~pageable => comparator = event.comparator
     /\ ClientPaged => fullComparator = event.comparator
     /\ dir = ImpliedDirections(event)

\* C14 as amended: a plain collection's comparator is the one the most recent
\* dispatch built; in client mode the superset's comparator is the one built
\* by the dispatch that found the superset without one, and later dispatches
\* leave it; every cell's direction is the one the most recent event implies.
C14_LastWriteWinsLocalFirstWriteClient ==
  [][/\ (~pageable /\ event' # NoEvent) => comparator' = event'.comparator
     /\ ClientPaged =>
          fullComparator' =
            IF event' # event /\ fullComparator = NoComparator
            THEN event'.comparator ELSE fullComparator
     /\ event' # NoEvent => dir' = ImpliedDirections(event')]_vars

C14_Witness ==
  /\ ClientPaged
  /\ event.direction = "descending"
  /\ fullComparator # NoComparator
  /\ fullComparator # event.comparator
  /\ dir[event.columnName] = "descending"

\* C15: in client mode a dispatch assigns the comparator it built to the
\* superset only when the superset has none and leaves the superset's
\* comparator otherwise; either way the superset is sorted again, by the
\* comparator it then has, and nothing is fetched.
C15_ClientFirstWriteWins ==
  [][ClientPaged =>
       \A c \in Columns :
          (sortable[c] /\ OnClick(c)) =>
             /\ fullComparator' =
                  IF fullComparator = NoComparator
                  THEN BuiltComparator(c, NextDirection(dir[c]))
                  ELSE fullComparator
             /\ IsSortedBy(fullModels', fullComparator')
             /\ Count(last'.calls, "fullCollection.sort") = 1
             /\ Count(last'.calls, "fetch") = 0
             /\ pending' = pending]_vars

C15_Witness ==
  /\ ClientPaged
  /\ last.sorted
  /\ last.direction = null
  /\ fullComparator.kind = "attr"
  /\ pending = <<>>
  /\ IsSortedBy(fullModels, fullComparator)

\* C16: each activation sorts exactly when the column is sortable at that
\* activation; a column that stopped being sortable keeps its direction.
C16_SortableEvaluatedEachTime ==
  [][\A c \in Columns :
       OnClick(c) =>
          /\ last'.sorted <=> sortable[c]
          /\ Count(last'.calls, "trigger") = (IF sortable[c] THEN 1 ELSE 0)
          /\ sortable[c] =>
               /\ event'.columnName = c
               /\ event'.direction = NextDirection(dir[c])
          /\ ~sortable[c] => (dir' = dir /\ event' = event)]_vars

C16_Witness ==
  /\ last.cell # null
  /\ ~last.sorted
  /\ ~sortable[last.cell]
  /\ dir[last.cell] = "ascending"
  /\ streak # <<>>
  /\ streak[Len(streak)].cell = last.cell
  /\ streak[Len(streak)].after = "ascending"

\* C17: when a fetch fails no other fetch is issued, and the cells'
\* directions and the recorded sort parameters stay as they were.
C17_FailedFetchNoRetryNoRollback ==
  [][\A i \in 1..MaxPending :
       FetchFail(i) =>
          /\ Len(pending') = Len(pending) - 1
          /\ UNCHANGED <<dir, sortKey, order, event, models, fullModels,
                         comparator, fullComparator>>]_vars

C17_Witness ==
  /\ Remote
  /\ last.sorted
  /\ last.fetched = "failed"
  /\ pending = <<>>
  /\ dir[last.cell] = "ascending"
  /\ sortKey = last.cell
  /\ order = 0 - 1

\* C18: a column that held ascending or descending when another column
\* sorted starts over: its next sorting activation sends ascending.
C18_CycleRestarts ==
  (last.sorted /\ last.resumed) =>
     /\ last.direction = "ascending"
     /\ last.dirBefore[last.cell] = null
     /\ event.columnName = last.cell
     /\ event.direction = "ascending"

C18_Witness ==
  /\ last.sorted
  /\ last.resumed
  /\ last.direction = "ascending"
  /\ \E b \in Columns : b # last.cell /\ last.dirBefore[b] = "descending"

\* C19: in remote mode, whenever no fetch is in flight the models are in the
\* order the most recent dispatch asked for, the one the recorded sort
\* parameters and the cells' directions name.
C19_SettledOrderIsLatest ==
  (Remote /\ event # NoEvent /\ pending = <<>>) =>
     /\ models \in ServerResults([sortKey |-> sortKey, order |-> order])
     /\ sortKey = (IF event.direction = null THEN null ELSE event.columnName)
     /\ dir = ImpliedDirections(event)

\* C20: for a pageable collection the recorded sort parameters agree with
\* the cells: an ascending cell's column is the sort key with order -1, a
\* descending cell's with order +1, and after a dispatch of none, with every
\* cell at none, there is no sort key.
C20_RecordedParametersAgree ==
  pageable =>
     /\ \A c \in Columns :
          /\ dir[c] = "ascending" => (sortKey = c /\ order = 0 - 1)
          /\ dir[c] = "descending" => (sortKey = c /\ order = 1)
     /\ (event # NoEvent /\ event.direction = null /\ dir = NoDirections) =>
          sortKey = null

C20_Witness ==
  /\ ClientPaged
  /\ event.direction = null
  /\ dir = NoDirections
  /\ sortKey = null
  /\ last.sorted
  /\ last.dirBefore[last.cell] = "descending"

====
